---- MODULE Spec2Model ----
(***************************************************************************)
(* Movers recommendation API: the in-memory store of movers and the four   *)
(* request handlers (list, add, delete, review), in the two variants the   *)
(* repository holds: the complete one (src/unnamed/part_000, lines 229 to  *)
(* 475) and src/main.go.                                                   *)
(*                                                                         *)
(* float64 ratings are modelled as exact rationals [n, d] in lowest terms  *)
(* with d > 0: the rounding error of float64 arithmetic is not modelled.   *)
(* JobsAmount is a mathematical integer, and the candidates of an add      *)
(* request carry a non-negative JobsAmount, so the divisor totalJobs + 1   *)
(* of the running average is never zero and no rating is NaN or infinite.  *)
(***************************************************************************)
EXTENDS Integers, Sequences, FiniteSets, TLC

VARIABLES
    variant,   \* which program runs: "complete" (part_000) or "main" (main.go)
    movers,    \* the global slice `movers`
    prev,      \* history: `movers` as it was when the last request arrived
    last,      \* history: the last request and the response it was given
    nreq,      \* number of requests handled so far
    procs      \* the review handlers running at the same time, one per
               \* connection: where each is in recommendMover and its locals

vars == <<variant, movers, prev, last, nreq, procs>>

\* Number of requests handled in one run of the model.
MaxRequests == 3

-----------------------------------------------------------------------------
(* float64 values as rationals *)

Abs(x) == IF x < 0 THEN -x ELSE x

RECURSIVE GCD(_, _)
GCD(a, b) == IF b = 0 THEN a ELSE GCD(b, a % b)

\* The float64 value n/d (d # 0), in lowest terms with a positive denominator.
Rat(n, d) ==
    LET g == GCD(Abs(n), Abs(d))
        s == IF d < 0 THEN -1 ELSE 1
    IN  [n |-> (s * n) \div g, d |-> (s * d) \div g]

FromInt(i) == [n |-> i, d |-> 1]

\* The product, with the common factors taken out before multiplying so that
\* the intermediate integers stay small.
FMul(x, y) ==
    LET g1 == GCD(Abs(x.n), y.d)
        g2 == GCD(Abs(y.n), x.d)
    IN  Rat((x.n \div g1) * (y.n \div g2), (x.d \div g2) * (y.d \div g1))
FAdd(x, y) == Rat(x.n * y.d + y.n * x.d, x.d * y.d)
FSub(x, y) == Rat(x.n * y.d - y.n * x.d, x.d * y.d)
FDiv(x, y) == Rat(x.n * y.d, x.d * y.n)
FGt(x, y)  == x.n * y.d > y.n * x.d
FGe(x, y)  == x.n * y.d >= y.n * x.d
FLe(x, y)  == x.n * y.d <= y.n * x.d

\* math.Round: the nearest integer, halves away from zero.
MathRound(x) ==
    IF x.n >= 0 THEN (2 * x.n + x.d) \div (2 * x.d)
                ELSE -((2 * (-x.n) + x.d) \div (2 * x.d))

\* math.Round(r*10) / 10
RoundRating(r) == Rat(MathRound(FMul(r, FromInt(10))), 10)

-----------------------------------------------------------------------------
(* the mover record and the seeded store *)

Mover(id, name, rating, tel, jobs) ==
    [ID |-> id, Name |-> name, Rating |-> rating,
     TelephoneNumber |-> tel, JobsAmount |-> jobs]

SeedMovers == <<
    Mover(1,  "San Francisco MOV",      Rat(46, 10), "+15615557689", 3780),
    Mover(2,  "Rapid Movers",           Rat(42, 10), "+15617384568", 1240),
    Mover(3,  "Reliable Relocations",   Rat(47, 10), "+14155538692", 2050),
    Mover(4,  "City Express Movers",    Rat(45, 10), "+18025559482", 1870),
    Mover(5,  "Pro Mover Co.",          Rat(48, 10), "+17024457893", 2500),
    Mover(6,  "MoveOn Solutions",       Rat(44, 10), "+19025548765", 1730),
    Mover(7,  "All Star Moving",        Rat(43, 10), "+13125587612", 1290),
    Mover(8,  "Swift Relocation",       Rat(46, 10), "+12026758741", 3100),
    Mover(9,  "Speedy Transport",       Rat(45, 10), "+14027759832", 1980),
    Mover(10, "Premier Movers",         Rat(47, 10), "+15022556478", 2300),
    Mover(11, "Ace Relocators",         Rat(43, 10), "+16024457812", 1670),
    Mover(12, "Trusted Movers Co.",     Rat(46, 10), "+17024459874", 2890),
    Mover(13, "Urban Move",             Rat(45, 10), "+18024458736", 3200),
    Mover(14, "FastTrack Movers",       Rat(47, 10), "+13027758495", 2150),
    Mover(15, "Metro Moving Solutions", Rat(44, 10), "+14028854721", 1390) >>

\* MarshalJSON: the record as written to a response, Rating rounded to one
\* decimal place on the copy `m` (value receiver).
MarshalJSON(m) == [m EXCEPT !.Rating = RoundRating(m.Rating)]

MarshalAll(s) == [i \in 1..Len(s) |-> MarshalJSON(s[i])]

-----------------------------------------------------------------------------
(* helper functions of the program *)

\* strconv.Atoi on the path parameters the model sends; ok = FALSE is the
\* conversion error.
Atoi(s) ==
    CASE s = "1"  -> [ok |-> TRUE, val |-> 1]
      [] s = "8"  -> [ok |-> TRUE, val |-> 8]
      [] s = "16" -> [ok |-> TRUE, val |-> 16]
      [] s = "99" -> [ok |-> TRUE, val |-> 99]
      [] OTHER    -> [ok |-> FALSE, val |-> 0]

\* extractId: the id, or -1 with an error.
extractId(idParam) ==
    LET a == Atoi(idParam)
    IN  IF a.ok THEN [err |-> FALSE, id |-> a.val] ELSE [err |-> TRUE, id |-> -1]

\* A lookup that keeps scanning and returns the last match.
findMoverIndexByIdLast(ms, id) ==
    IF \E i \in 1..Len(ms) : ms[i].ID = id
    THEN CHOOSE i \in 1..Len(ms) :
            /\ ms[i].ID = id
            /\ \A j \in (i + 1)..Len(ms) : ms[j].ID # id
    ELSE 0

\* findMoverIndexById / getMoverById: the first index (1-based here) whose ID
\* matches, 0 when there is none ("mover not found").
findMoverIndexById(ms, id) ==
    IF \E i \in 1..Len(ms) : ms[i].ID = id
    THEN CHOOSE i \in 1..Len(ms) :
            /\ ms[i].ID = id
            /\ \A j \in 1..(i - 1) : ms[j].ID # id
    ELSE 0

\* slices.Delete(slice, index, index+1)
deleteElement(slice, index) ==
    [i \in 1..(Len(slice) - 1) |-> IF i < index THEN slice[i] ELSE slice[i + 1]]

\* A comparator that breaks ties by descending ID.
LessTieDescending(a, b) ==
    IF a.Rating = b.Rating THEN a.ID > b.ID ELSE FGt(a.Rating, b.Rating)

\* The comparator given to sort.Slice: a sorts before b.
Less(a, b) ==
    IF a.Rating = b.Rating THEN a.ID < b.ID ELSE FGt(a.Rating, b.Rating)

\* sort.Slice: every order of the elements that the comparator allows.  The
\* sort is not stable, so elements that compare equal (same Rating, same ID)
\* may come out in either order.
RECURSIVE SortSlice(_)
SortSlice(s) ==
    IF Len(s) = 0 THEN {<<>>}
    ELSE LET first == {i \in 1..Len(s) : \A j \in 1..Len(s) : ~Less(s[j], s[i])}
         IN  UNION { {<<s[i]>> \o t : t \in SortSlice(deleteElement(s, i))} :
                     i \in first }

\* A ranking that sorts the slice it is given instead of a copy.
sortWithoutCopy(ms) ==
    {[store |-> sorted, result |-> sorted] : sorted \in SortSlice(ms)}

\* sortMoversByRatingAndId (complete variant): sorts a copy of the slice and
\* returns it; the slice it was given keeps its order.
sortMoversByRatingAndId(ms) ==
    {[store |-> ms, result |-> moversCopy] : moversCopy \in SortSlice(ms)}

\* sortMoversByRateAndID (main.go): sorts the slice it is given, in place.
sortMoversByRateAndID(ms) ==
    {[store |-> sorted, result |-> sorted] : sorted \in SortSlice(ms)}

\* movers == nil: never true of the slice, which is made non-nil at start
\* and stays non-nil when its last element is deleted.
IsNil(ms) == FALSE

\* len(movers) == 0
IsEmpty(ms) == Len(ms) = 0

\* An existence check that compares ids only.
checkMoverExistsIdOnly(ms, newMover) ==
    \E i \in 1..Len(ms) : ms[i].ID = newMover.ID

checkMoverExists(ms, newMover) ==
    \E i \in 1..Len(ms) : ms[i].ID = newMover.ID \/ ms[i].Name = newMover.Name

\* A telephone check that compares against the wrong field.
checkMoverTelNumberByName(ms, newMover) ==
    \E i \in 1..Len(ms) : ms[i].Name = newMover.TelephoneNumber

checkMoverTelNumber(ms, newMover) ==
    \E i \in 1..Len(ms) : ms[i].TelephoneNumber = newMover.TelephoneNumber

\* A range check that forgets the lower end.
RatingInRangeNoLower(r) == FLe(r, FromInt(5))

\* updatedRating.Rating >= 0.0 && updatedRating.Rating <= 5.0
RatingInRange(r) == FGe(r, FromInt(0)) /\ FLe(r, FromInt(5))

\* An average that divides by the old count.
AverageRatingOldCount(rating, totalJobs, newRating) ==
    IF totalJobs = 0 THEN newRating
    ELSE FDiv(FAdd(FMul(rating, FromInt(totalJobs)), newRating), FromInt(totalJobs))

\* (existingMover.Rating*float64(totalJobs) + updatedRating.Rating) / (float64(totalJobs) + 1)
AverageRating(rating, totalJobs, newRating) ==
    FDiv(FAdd(FMul(rating, FromInt(totalJobs)), newRating),
         FAdd(FromInt(totalJobs), FromInt(1)))

\* A review that updates the rating and forgets the counter.
applyReviewNoCount(m, newRating) ==
    [m EXCEPT !.Rating = AverageRating(m.Rating, m.JobsAmount, newRating)]

\* A review that averages from the rating as displayed.
applyReviewFromRounded(m, newRating) ==
    [m EXCEPT !.Rating = AverageRating(RoundRating(m.Rating), m.JobsAmount, newRating),
              !.JobsAmount = m.JobsAmount + 1]

\* The two assignments through the pointer existingMover.
applyReview(m, newRating) ==
    [m EXCEPT !.Rating = AverageRating(m.Rating, m.JobsAmount, newRating),
              !.JobsAmount = m.JobsAmount + 1]

-----------------------------------------------------------------------------
(* requests *)

IdParams == {"1", "8", "16", "99", "x1"}

\* Ratings a review submits: both ends of the range, a value inside it, and
\* one value past each end.
ReviewRatings == {Rat(0, 1), Rat(3, 1), Rat(5, 1), Rat(51, 10), Rat(-1, 10)}

\* Bodies of an add request: a mover that is new in id, name and telephone
\* number, with a rating inside [0,5] (4.0) or outside it (10.25), and one
\* that takes the id, the name or the telephone number of seeded mover 1, or
\* all three.
Candidates ==
    { Mover(16, "Urban Haul",        Rat(4, 1),      "+10000000016", 0),
      Mover(16, "Urban Haul",        Rat(1025, 100), "+10000000016", 1),
      Mover(1,  "Urban Haul",        Rat(4, 1),      "+10000000016", 0),
      Mover(16, "San Francisco MOV", Rat(4, 1),      "+10000000016", 0),
      Mover(16, "Urban Haul",        Rat(4, 1),      "+15615557689", 0),
      Mover(1,  "San Francisco MOV", Rat(1025, 100), "+15615557689", 1) }

NoMover == Mover(0, "", FromInt(0), "", 0)

\* A request body: valid = FALSE is a body BindJSON cannot parse.
Body(valid, m) == [valid |-> valid, m |-> m]

ReviewBodies == {Body(TRUE, [NoMover EXCEPT !.Rating = r]) : r \in ReviewRatings}
                    \cup {Body(FALSE, NoMover)}
AddBodies == {Body(TRUE, c) : c \in Candidates} \cup {Body(FALSE, NoMover)}

\* context.JSON(status, val): val is the sequence of records handed over (empty
\* for a message or an error), out is what MarshalJSON makes of each.
Response(op, idParam, body, status, val) ==
    [op |-> op, idParam |-> idParam, body |-> body, status |-> status,
     val |-> val, out |-> MarshalAll(val)]

StatusOK == 200
StatusCreated == 201
StatusBadRequest == 400
StatusNotFound == 404
StatusExpectationFailed == 417

EmptyListStatus == IF variant = "complete" THEN StatusNotFound ELSE StatusBadRequest

-----------------------------------------------------------------------------
(* handlers *)

Handled == /\ nreq < MaxRequests
           /\ nreq' = nreq + 1
           /\ prev' = movers
           /\ UNCHANGED <<variant, procs>>

\* GET /movers
getMovers ==
    /\ Handled
    /\ IF IsEmpty(movers)
       THEN /\ last' = Response("list", "", Body(FALSE, NoMover), EmptyListStatus, <<>>)
            /\ UNCHANGED movers
       ELSE \E sorted \in (IF variant = "complete"
                            THEN sortMoversByRatingAndId(movers)
                            ELSE sortMoversByRateAndID(movers)) :
            /\ last' = Response("list", "", Body(FALSE, NoMover), StatusOK, sorted.result)
            /\ movers' = sorted.store

\* POST /movers
addMover(body) ==
    /\ Handled
    /\ LET newMover == body.m
           resp(status, out) == Response("add", "", body, status, out)
       IN  IF ~body.valid
           THEN /\ last' = resp(StatusBadRequest, <<>>)
                /\ UNCHANGED movers
           ELSE IF variant = "complete" /\ checkMoverExists(movers, newMover)
           THEN /\ last' = resp(StatusNotFound, <<>>)
                /\ UNCHANGED movers
           ELSE IF variant = "complete" /\ checkMoverTelNumber(movers, newMover)
           THEN /\ last' = resp(StatusNotFound, <<>>)
                /\ UNCHANGED movers
           ELSE /\ movers' = Append(movers, newMover)
                /\ last' = resp(StatusCreated, <<newMover>>)

\* DELETE /movers/:id
deleteMover(idParam) ==
    /\ Handled
    /\ LET e == extractId(idParam)
           moverIndex == findMoverIndexById(movers, e.id)
           resp(status) == Response("delete", idParam, Body(FALSE, NoMover), status, <<>>)
       IN  IF e.err
           THEN /\ last' = resp(StatusBadRequest)
                /\ UNCHANGED movers
           ELSE IF moverIndex = 0
           THEN /\ last' = resp(StatusNotFound)
                /\ UNCHANGED movers
           ELSE /\ movers' = deleteElement(movers, moverIndex)
                /\ last' = resp(StatusOK)

\* POST /movers/:id/review
recommendMover(idParam, body) ==
    /\ Handled
    /\ LET e == extractId(idParam)
           i == findMoverIndexById(movers, e.id)
           resp(status, out) == Response("review", idParam, body, status, out)
       IN  IF e.err
           THEN /\ last' = resp(StatusBadRequest, <<>>)
                /\ UNCHANGED movers
           ELSE IF i = 0
           THEN /\ last' = resp(StatusNotFound, <<>>)
                /\ UNCHANGED movers
           ELSE IF ~body.valid
           THEN /\ last' = resp(StatusBadRequest, <<>>)
                /\ UNCHANGED movers
           ELSE IF RatingInRange(body.m.Rating)
           THEN /\ movers' = [movers EXCEPT ![i] = applyReview(movers[i], body.m.Rating)]
                /\ last' = resp(StatusOK, <<movers'[i]>>)
           ELSE /\ last' = resp(StatusExpectationFailed, <<>>)
                /\ UNCHANGED movers

-----------------------------------------------------------------------------
(* specifications *)

NoRequest == Response("none", "", Body(FALSE, NoMover), 0, <<>>)

\* The goroutines that serve requests at the same time.
Procs == {1, 2}

\* A handler goroutine with no request: the locals of recommendMover at
\* their zero values.
IdleProc ==
    [pc |-> "idle", idParam |-> "", body |-> Body(FALSE, NoMover), idx |-> 0,
     totalJobs |-> 0, rating |-> FromInt(0), jobs |-> 0, status |-> 0]

Variants == {"complete", "main"}

\* The program as started: the store holds the fifteen seeded movers.
Init ==
    /\ variant \in Variants
    /\ movers = SeedMovers
    /\ prev = SeedMovers
    /\ last = NoRequest
    /\ nreq = 0
    /\ procs = [p \in Procs |-> IdleProc]

\* The program after every seeded mover has been deleted.
InitDrained ==
    /\ variant \in Variants
    /\ movers = <<>>
    /\ prev = <<>>
    /\ last = NoRequest
    /\ nreq = 0
    /\ procs = [p \in Procs |-> IdleProc]

List == getMovers
Add == \E body \in AddBodies : addMover(body)
Delete == \E idParam \in IdParams : deleteMover(idParam)
Review == \E idParam \in IdParams, body \in ReviewBodies : recommendMover(idParam, body)

Next == List \/ Add \/ Delete \/ Review

Spec == Init /\ [][Next]_vars

SpecDrained == InitDrained /\ [][Next]_vars

-----------------------------------------------------------------------------
(* recommendMover served by several goroutines at once: each access to the  *)
(* shared record through the pointer existingMover is a step of its own,    *)
(* and nothing orders the steps of one goroutine against another's.         *)

SetProc(p, r) == procs' = [procs EXCEPT ![p] = r]

Finish(p, status, val) ==
    /\ SetProc(p, [procs[p] EXCEPT !.pc = "done", !.status = status])
    /\ last' = Response("review", procs[p].idParam, procs[p].body, status, val)

\* A review request arrives on a connection.
Arrive(p, idParam, body) ==
    /\ procs[p].pc = "idle"
    /\ SetProc(p, [procs[p] EXCEPT !.pc = "check", !.idParam = idParam, !.body = body])
    /\ nreq' = nreq + 1
    /\ prev' = movers
    /\ UNCHANGED <<variant, movers, last>>

\* extractId, getMoverById, BindJSON and the range test: everything up to the
\* first read through existingMover.
Check(p) ==
    /\ procs[p].pc = "check"
    /\ LET e == extractId(procs[p].idParam)
           i == findMoverIndexById(movers, e.id)
       IN  IF e.err THEN Finish(p, StatusBadRequest, <<>>)
           ELSE IF i = 0 THEN Finish(p, StatusNotFound, <<>>)
           ELSE IF ~procs[p].body.valid THEN Finish(p, StatusBadRequest, <<>>)
           ELSE IF ~RatingInRange(procs[p].body.m.Rating)
                THEN Finish(p, StatusExpectationFailed, <<>>)
           ELSE /\ SetProc(p, [procs[p] EXCEPT !.pc = "readJobs", !.idx = i])
                /\ UNCHANGED last
    /\ UNCHANGED <<variant, movers, prev, nreq>>

\* totalJobs := existingMover.JobsAmount
ReadJobs(p) ==
    /\ procs[p].pc = "readJobs"
    /\ SetProc(p, [procs[p] EXCEPT !.pc = "readRating",
                                   !.totalJobs = movers[procs[p].idx].JobsAmount])
    /\ UNCHANGED <<variant, movers, prev, last, nreq>>

\* The read of existingMover.Rating on the right of the assignment.
ReadRating(p) ==
    /\ procs[p].pc = "readRating"
    /\ SetProc(p, [procs[p] EXCEPT !.pc = "writeRating",
                                   !.rating = movers[procs[p].idx].Rating])
    /\ UNCHANGED <<variant, movers, prev, last, nreq>>

\* A store that reads the rating again as it writes: read and write as one
\* step.
WriteRatingAtomic(p) ==
    /\ procs[p].pc = "writeRating"
    /\ movers' = [movers EXCEPT ![procs[p].idx].Rating =
                     AverageRating(movers[procs[p].idx].Rating, procs[p].totalJobs,
                                   procs[p].body.m.Rating)]
    /\ SetProc(p, [procs[p] EXCEPT !.pc = "readCount"])
    /\ UNCHANGED <<variant, prev, last, nreq>>

\* existingMover.Rating = (rating read * totalJobs + new rating) / (totalJobs + 1)
WriteRating(p) ==
    /\ procs[p].pc = "writeRating"
    /\ movers' = [movers EXCEPT ![procs[p].idx].Rating =
                     AverageRating(procs[p].rating, procs[p].totalJobs,
                                   procs[p].body.m.Rating)]
    /\ SetProc(p, [procs[p] EXCEPT !.pc = "readCount"])
    /\ UNCHANGED <<variant, prev, last, nreq>>

\* existingMover.JobsAmount += 1, the read
ReadCount(p) ==
    /\ procs[p].pc = "readCount"
    /\ SetProc(p, [procs[p] EXCEPT !.pc = "writeCount",
                                   !.jobs = movers[procs[p].idx].JobsAmount])
    /\ UNCHANGED <<variant, movers, prev, last, nreq>>

\* existingMover.JobsAmount += 1, the write
WriteCount(p) ==
    /\ procs[p].pc = "writeCount"
    /\ movers' = [movers EXCEPT ![procs[p].idx].JobsAmount = procs[p].jobs + 1]
    /\ SetProc(p, [procs[p] EXCEPT !.pc = "respond"])
    /\ UNCHANGED <<variant, prev, last, nreq>>

\* context.JSON(http.StatusOK, existingMover)
Respond(p) ==
    /\ procs[p].pc = "respond"
    /\ Finish(p, StatusOK, <<movers[procs[p].idx]>>)
    /\ UNCHANGED <<variant, movers, prev, nreq>>

NextConcurrent ==
    \E p \in Procs :
        \/ \E idParam \in IdParams, body \in ReviewBodies : Arrive(p, idParam, body)
        \/ Check(p)
        \/ ReadJobs(p)
        \/ ReadRating(p)
        \/ WriteRating(p)
        \/ ReadCount(p)
        \/ WriteCount(p)
        \/ Respond(p)

\* Two review requests served at the same time, from the seeded store.
SpecConcurrent == Init /\ [][NextConcurrent]_vars

-----------------------------------------------------------------------------
(* what the last request was, read from the history variables *)

ReqId == extractId(last.idParam)

\* The request named an id that parses and that a stored record had.
TargetExisted == ~ReqId.err /\ \E i \in 1..Len(prev) : prev[i].ID = ReqId.id

\* Position, in the store as the request found it, of the first record with
\* the requested id.
IsTarget(i) ==
    /\ i \in 1..Len(prev)
    /\ prev[i].ID = ReqId.id
    /\ \A j \in 1..(i - 1) : prev[j].ID # ReqId.id

Count(s, x) == Cardinality({i \in 1..Len(s) : s[i] = x})

IsPermutation(s, t) ==
    /\ Len(s) = Len(t)
    /\ \A i \in 1..Len(s) : Count(s, s[i]) = Count(t, s[i])

ReviewOK == last.op = "review" /\ last.status = StatusOK

ReviewSubmitted(r) == last.op = "review" /\ last.body.valid /\ last.body.m.Rating = r

-----------------------------------------------------------------------------
(* C1 *)

-----------------------------------------------------------------------------
(* C2 *)

\* C2: a review of an existing mover with a rating r in [0,5] succeeds, sets
\* the record's rating to (oldRating * oldJobsDone + r) / (oldJobsDone + 1),
\* which is to say newRating * (oldJobsDone + 1) - oldRating * oldJobsDone = r,
\* and raises jobsDone by 1; 4.0 with 0 jobs reviewed with 5.0 gives 5.0 with
\* 1 job, and that reviewed with 3.0 gives 4.0 with 2 jobs.
C2_RunningAverage ==
    (/\ last.op = "review" /\ TargetExisted /\ last.body.valid
     /\ 0 <= last.body.m.Rating.n
     /\ last.body.m.Rating.n <= 5 * last.body.m.Rating.d) =>
        /\ last.status = StatusOK
        /\ Len(movers) = Len(prev)
        /\ \A i \in 1..Len(prev) : IsTarget(i) =>
              LET old == prev[i]
                  new == movers[i]
                  r == last.body.m.Rating
              IN  /\ new.JobsAmount = old.JobsAmount + 1
                  /\ FSub(FMul(new.Rating, FromInt(old.JobsAmount + 1)),
                          FMul(old.Rating, FromInt(old.JobsAmount))) = r
                  /\ (old.Rating = FromInt(4) /\ old.JobsAmount = 0 /\ r = FromInt(5))
                        => (new.Rating = FromInt(5) /\ new.JobsAmount = 1)
                  /\ (old.Rating = FromInt(5) /\ old.JobsAmount = 1 /\ r = FromInt(3))
                        => (new.Rating = FromInt(4) /\ new.JobsAmount = 2)

\* The second review of the example: a record at 5.0 with 1 job, reviewed
\* with 3.0, now at 4.0 with 2 jobs.
C2_Witness ==
    /\ ReviewOK /\ ReviewSubmitted(FromInt(3))
    /\ \E i \in 1..Len(prev) :
          /\ IsTarget(i)
          /\ prev[i].Rating = FromInt(5) /\ prev[i].JobsAmount = 1
          /\ movers[i].Rating = FromInt(4) /\ movers[i].JobsAmount = 2

-----------------------------------------------------------------------------
(* C3 *)

OutOfRange(r) == r.n < 0 \/ r.n > 5 * r.d

\* C3: a review of an existing mover with a rating below 0.0 or above 5.0
\* fails with 417 and leaves the whole store as it was.
C3_RangeRejected ==
    (/\ last.op = "review" /\ TargetExisted /\ last.body.valid
     /\ OutOfRange(last.body.m.Rating)) =>
        /\ last.status = StatusExpectationFailed
        /\ movers = prev

\* A review with -0.1 of a stored mover was refused with 417.
C3_Witness ==
    /\ ReviewSubmitted(Rat(-1, 10)) /\ TargetExisted
    /\ last.status = StatusExpectationFailed
    /\ Len(prev) > 0

-----------------------------------------------------------------------------
(* C4 *)

\* C4: after any sequence of requests from the seeded store, the record a
\* successful review has just updated has a rating r with 0 <= r <= 5.
C4_ReviewedRatingInRange ==
    ReviewOK =>
        \A i \in 1..Len(prev) : IsTarget(i) =>
            /\ movers[i].Rating.n >= 0
            /\ movers[i].Rating.n <= 5 * movers[i].Rating.d

-----------------------------------------------------------------------------
(* C5 *)

\* C5: deleting a present id removes the first record in stored order with
\* that id and nothing else, the rest keeping their order; deleting an absent
\* id fails with 404 and leaves the store unchanged.
C5_DeleteFirstMatch ==
    (last.op = "delete" /\ ~ReqId.err) =>
        IF TargetExisted
        THEN /\ last.status = StatusOK
             /\ Len(movers) = Len(prev) - 1
             /\ \A i \in 1..Len(prev) : IsTarget(i) =>
                   /\ \A k \in 1..(i - 1) : movers[k] = prev[k]
                   /\ \A k \in i..Len(movers) : movers[k] = prev[k + 1]
        ELSE /\ last.status = StatusNotFound
             /\ movers = prev

\* A delete of an id that two stored records had: the first is gone, the
\* second is still stored.
C5_Witness ==
    /\ last.op = "delete" /\ last.status = StatusOK
    /\ Cardinality({i \in 1..Len(prev) : prev[i].ID = ReqId.id}) = 2
    /\ \E i \in 1..Len(movers) : movers[i].ID = ReqId.id
-----------------------------------------------------------------------------
(* C6 *)

-----------------------------------------------------------------------------
(* C7 *)

\* C7: in the complete variant a listing leaves the stored sequence, contents
\* and order, as it was.
C7_ListingKeepsStore ==
    (variant = "complete" /\ last.op = "list") => movers = prev

\* A successful listing of a store that was not in ranked order.
C7_Witness ==
    /\ variant = "complete" /\ last.op = "list" /\ last.status = StatusOK
    /\ last.val # prev

-----------------------------------------------------------------------------
(* C8 *)

\* What identifies a record, with its counter.
JobsOf(m) == <<m.ID, m.Name, m.TelephoneNumber, m.JobsAmount>>

Jobs(s) == [i \in 1..Len(s) |-> JobsOf(s[i])]

\* C8: jobsDone of a stored record grows by exactly 1 on each successful
\* review of that record and is unchanged by every other request: a listing,
\* an add, a delete of another record, a failed review, a review of another
\* record.
C8_JobsDoneMonotone ==
    /\ ReviewOK =>
          /\ Len(movers) = Len(prev)
          /\ \A i \in 1..Len(prev) :
                JobsOf(movers[i]) =
                    IF IsTarget(i)
                    THEN <<prev[i].ID, prev[i].Name, prev[i].TelephoneNumber,
                           prev[i].JobsAmount + 1>>
                    ELSE JobsOf(prev[i])
    /\ (last.op = "review" /\ last.status # StatusOK) => Jobs(movers) = Jobs(prev)
    /\ last.op = "list" => IsPermutation(Jobs(movers), Jobs(prev))
    /\ last.op = "add" =>
          \/ Jobs(movers) = Jobs(prev)
          \/ Jobs(movers) = Jobs(Append(prev, last.body.m))
    /\ last.op = "delete" =>
          \/ Jobs(movers) = Jobs(prev)
          \/ \E i \in 1..Len(prev) :
                Jobs(movers) = [k \in 1..(Len(prev) - 1) |->
                                   IF k < i THEN JobsOf(prev[k]) ELSE JobsOf(prev[k + 1])]

\* The second successful review of seeded mover 1: its counter went from 3781
\* to 3782.
C8_Witness ==
    /\ ReviewOK
    /\ \E i \in 1..Len(prev) :
          /\ IsTarget(i)
          /\ prev[i].ID = 1 /\ prev[i].JobsAmount = 3781
          /\ movers[i].JobsAmount = 3782

-----------------------------------------------------------------------------
(* C9 *)

\* C9: a listing of a store with no records answers with an error (404 in the
\* complete variant, 400 in main.go) and no list; a listing of a store with
\* at least one record answers 200.
C9_EmptyListingIsError ==
    last.op = "list" =>
        IF Len(prev) = 0
        THEN /\ last.status = (IF variant = "complete" THEN StatusNotFound
                                                        ELSE StatusBadRequest)
             /\ last.val = <<>>
        ELSE /\ last.status = StatusOK
             /\ Len(last.val) = Len(prev)

\* A listing of the empty store was refused.
C9_Witness ==
    /\ last.op = "list" /\ prev = <<>> /\ movers = <<>>
    /\ last.status \in {StatusNotFound, StatusBadRequest}

-----------------------------------------------------------------------------
(* C10 *)

OneDecimal(r) == (10 * r.n) % r.d = 0

\* |x - y| <= 1/20
WithinHalfTenth(x, y) ==
    LET diff == x.n * y.d - y.n * x.d
    IN  20 * (IF diff < 0 THEN -diff ELSE diff) <= x.d * y.d

\* C10: rounding to one decimal place is applied to the value written in a
\* response only: serialising leaves the stored ratings as they were, and a
\* review averages from the stored rating at full precision; seeded mover 1
\* (4.6, 3780 jobs) reviewed with 5.0 has 3781 jobs, is written with rating
\* 4.6 and is stored with a rating that is not 4.6.
C10_RoundingOnOutputOnly ==
    /\ \A k \in 1..Len(last.out) :
          /\ OneDecimal(last.out[k].Rating)
          /\ WithinHalfTenth(last.out[k].Rating, last.val[k].Rating)
    /\ last.op = "list" => IsPermutation(movers, prev)
    /\ (last.op = "add" /\ last.status = StatusCreated) =>
          movers = Append(prev, last.body.m)
    /\ ReviewOK =>
          \A i \in 1..Len(prev) : IsTarget(i) =>
              /\ last.val = <<movers[i]>>
              /\ FSub(FMul(movers[i].Rating, FromInt(prev[i].JobsAmount + 1)),
                      FMul(prev[i].Rating, FromInt(prev[i].JobsAmount)))
                    = last.body.m.Rating
              /\ (prev[i] = SeedMovers[1] /\ last.body.m.Rating = FromInt(5)) =>
                    /\ movers[i].JobsAmount = 3781
                    /\ last.out[1].JobsAmount = 3781
                    /\ last.out[1].Rating = Rat(46, 10)
                    /\ movers[i].Rating # Rat(46, 10)

\* A review of seeded mover 1 after an earlier review had left it with a
\* stored rating that is not a one-decimal value.
C10_Witness ==
    /\ ReviewOK
    /\ \E i \in 1..Len(prev) :
          /\ IsTarget(i)
          /\ prev[i].ID = 1 /\ prev[i].JobsAmount = 3781
          /\ ~OneDecimal(prev[i].Rating)
          /\ last.out[1].Rating # movers[i].Rating
-----------------------------------------------------------------------------
(* C11 *)

\* Both handlers have answered 200 for a review of the record at index i.
BothReviewed(p, q, i) ==
    /\ p # q
    /\ procs[p].pc = "done" /\ procs[q].pc = "done"
    /\ procs[p].status = StatusOK /\ procs[q].status = StatusOK
    /\ procs[p].idx = i /\ procs[q].idx = i

\* The handler read the record's rating and jobsDone before any review wrote.
ReadOriginal(p, i) ==
    /\ procs[p].rating = SeedMovers[i].Rating
    /\ procs[p].totalJobs = SeedMovers[i].JobsAmount

\* rating * (jobsDone + k) - original rating * jobsDone, the sum of the
\* ratings that k reviews of the original record have averaged in.
Averaged(i, k) ==
    FSub(FMul(movers[i].Rating, FromInt(SeedMovers[i].JobsAmount + k)),
         FMul(SeedMovers[i].Rating, FromInt(SeedMovers[i].JobsAmount)))

\* C11: the handler's reads of jobsDone and rating and its writes are
\* separate steps with no lock; when two reviews of the same mover run at
\* the same time and both read the original values, both succeed and the
\* record's rating ends as the result of applying one of the two reviews
\* alone to the original values.
C11_LostUpdate ==
    \A p, q \in Procs : \A i \in 1..Len(movers) :
        (BothReviewed(p, q, i) /\ ReadOriginal(p, i) /\ ReadOriginal(q, i)) =>
            Averaged(i, 1) \in {procs[p].body.m.Rating, procs[q].body.m.Rating}

\* Two reviews of seeded mover 1, with 5.0 and with 3.0, have both answered
\* 200; the rating is what the review with 3.0 alone gives and not what the
\* two reviews one after the other give.
C11_Witness ==
    /\ BothReviewed(1, 2, 1)
    /\ procs[1].body.m.Rating = FromInt(5)
    /\ procs[2].body.m.Rating = FromInt(3)
    /\ Averaged(1, 1) = FromInt(3)
    /\ Averaged(1, 2) # FromInt(8)
-----------------------------------------------------------------------------
(* C12 *)

\* C12: with requests handled one at a time, a review changes at most the
\* rating and jobsDone of the first stored record with the requested id: its
\* id, name and telephone number, every other record, the length and the
\* order of the store stay; when no record has the requested id the request
\* fails with 404 and the store stays as it was, whatever rating was sent.
C12_ReviewFrame ==
    last.op = "review" =>
        IF TargetExisted
        THEN /\ Len(movers) = Len(prev)
             /\ \A i \in 1..Len(prev) :
                   IF IsTarget(i)
                   THEN /\ movers[i].ID = prev[i].ID
                        /\ movers[i].Name = prev[i].Name
                        /\ movers[i].TelephoneNumber = prev[i].TelephoneNumber
                   ELSE movers[i] = prev[i]
        ELSE /\ movers = prev
             /\ ~ReqId.err => last.status = StatusNotFound

\* A successful review of an id that two stored records had: the first was
\* updated, the second is as it was.
C12_Witness ==
    /\ ReviewOK
    /\ \E i, j \in 1..Len(prev) :
          /\ IsTarget(i) /\ i < j /\ prev[j].ID = ReqId.id
          /\ movers[i] # prev[i]
          /\ movers[j] = prev[j]

-----------------------------------------------------------------------------
(* C13 *)

\* C13: in the complete variant, from the seeded store and with requests
\* handled one at a time, no two stored records share an id, a name or a
\* telephone number.
C13_UniqueRecords ==
    variant = "complete" =>
        \A i \in 1..Len(movers) : \A j \in (i + 1)..Len(movers) :
            /\ movers[i].ID # movers[j].ID
            /\ movers[i].Name # movers[j].Name
            /\ movers[i].TelephoneNumber # movers[j].TelephoneNumber

\* A mover was added after the fifteen seeded ones, and an add that took its
\* name with a new id has just been refused.
C13_Witness ==
    /\ variant = "complete"
    /\ Len(movers) = 16 /\ movers = prev
    /\ last.op = "add" /\ last.body.valid /\ last.status = StatusNotFound
    /\ last.body.m.Name = movers[16].Name
    /\ last.body.m.ID # movers[16].ID

====
